---- MODULE Spec2Model ----
(***************************************************************************)
(* A model of Player::Impl (shaka/src/public/player.cc): the network       *)
(* filter registry and chain runner (filters_, filters_mutex_,             *)
(* StepNetworkFilter) and the lifecycle of the held video element          *)
(* (Initialize, Attach, Detach, SetVideoWhenResolved).                     *)
(***************************************************************************)
EXTENDS Integers, Sequences, FiniteSets, TLC

\* ------------------------------------------------------------------ bounds
NumFilters == 2     \* distinct NetworkFilters* identities
MaxFilters == 2     \* longest filters_ list explored
MaxRuns == 1        \* chain runs (request/response events) explored
MaxOps == 2         \* Attach/Detach calls explored
MaxPathLen == 5     \* longest name_path explored, in characters

Null == 0           \* nullptr: a tombstoned filters_ entry, an empty RefPtr
End == 0            \* filters_.end(): the list's sentinel position
Free == 0           \* filters_mutex_ held by nobody

FilterIds == 1..NumFilters
Runs == 1..MaxRuns
Ops == 1..MaxOps
InitSink == MaxOps + 1   \* the HTMLVideoElement Initialize creates
Sinks == 1..InitSink     \* op o's Attach creates element o

\* name_path is a string over two letters and the separator.
Letters == {"a", "b"}
Chars == Letters \cup {"."}
Paths == UNION {[1..n -> Chars] : n \in 0..MaxPathLen}
\* T of GetConfigValue<T>, and the kinds of JS value a member can have.
Types == {"number", "string"}
JsKinds == Types \cup {"object", "undefined"}
\* A configuration object: the kind of the value at each place of two levels
\* of members named by one letter; a place below a non-object is undefined, an
\* object at the second level has no members.
Places == {<<<<k>>>> : k \in Letters} \cup {<<<<k>>, <<m>>>> : k, m \in Letters}
Configurations ==
  {t \in [Places -> JsKinds] :
     \A p \in Places : (Len(p) = 2 /\ t[p] # "undefined") => t[<<p[1]>>] = "object"}
NoConfiguration == [p \in Places |-> "undefined"]

VARIABLES
  \* ---- filter registry and chain runs
  filters_,        \* std::list<NetworkFilters*>: Seq of FilterIds \cup {Null}
  filters_mutex_,  \* Free, or the run whose StepNetworkFilter holds the lock
  pc,              \* run -> where the run is
  it,              \* run -> the iterator the run carries (index, or End)
  calls,           \* run -> Seq of <<index, filter>>: the steps invoked, in order
  finalized,       \* run -> number of obj->Finalize() calls
  result,          \* run -> "pending" | "resolved" | "rejected" (the Promise)
  failedAt,        \* run -> index of the entry whose error rejected the Promise
  examined,        \* run -> indices whose *it the locked scan has read
  scanLen,         \* run -> Len(filters_) at the run's latest locked scan
  startLive,       \* run -> the live indices when the run started
  mutated,         \* run -> an add/remove happened while the run was active
  okSteps,         \* run -> number of the run's steps that completed without Error
  removedIn,       \* run -> the filters removed so far while the run is active
  \* ---- lifecycle
  video_,          \* RefPtr<HTMLVideoElement>: the held Sink (Null or a Sink)
  object_,         \* the wrapped JS object is set (JsObjectWrapper::Init ran)
  withPlayer,      \* Initialize's `player` argument is non-null
  initPc,          \* "start" | "construct" | "listeners" | "ok" | "failed"
  initLog,         \* Seq of the Initialize steps performed, in order
  initFailedStep,  \* the step whose failure Initialize returned (0: none)
  remoteSink,      \* the Sink the JS player has attached
  opKind,          \* op -> "none" | "attach" | "detach"
  opPc,            \* op -> where the call and its returned future are
  opRc,            \* op -> "pending" | "ok" | "err": the remote call's result
  opOld,           \* op -> the video_ the op's `then` found held
  opLog,           \* op -> Seq of what the op's `then` did to the Sink state
  queue,           \* the engine thread's task queue: ops awaiting their remote call
  detached,        \* Sink -> number of Detach() calls it received
  writers,         \* the kinds of thread that have written video_
  overlap,         \* two `then` bodies have been inside lines 183-187 at once
  opSeq,           \* op -> every earlier op was retrieved when it was called
  opLate,          \* op -> Player::Destroy() had completed when it was called
  \* ---- teardown
  destroyPc,       \* Player::Destroy(): "idle" | "queued" | "done"
  dtorPc,          \* ~Impl: "alive" | "waiting" | "detach" | "gone"
  dtorRc,          \* the result of ~Impl's remote destroy ("pending" before)
  destroyCalls,    \* number of remote 'destroy' invocations on the JS object
  usedAfterDestroy, \* a late op's remote call was made on the JS object
  \* ---- configuration reads
  cfgPc,           \* GetConfigValue: "idle" | "scheduled" | "done"
  cfgPath,         \* name_path: a Seq of characters
  cfgWant,         \* T of GetConfigValue<T>
  cfgGetOk,        \* getConfiguration returned a value, not an Error
  cfgRoot,         \* the configuration object getConfiguration returned
  cfgResult,       \* what GetConfigValueRaw returned (<<>> before)
  cfgReads         \* number of members GetDescendant read

filterVars == <<filters_, filters_mutex_, pc, it, calls, finalized, result,
                failedAt, examined, scanLen, startLive, mutated, okSteps,
                removedIn>>
lifeVars == <<video_, object_, withPlayer, initPc, initLog, initFailedStep,
              remoteSink, opKind, opPc, opRc, opOld, opLog, queue, detached,
              writers, overlap, opSeq, opLate>>
destroyVars == <<destroyPc, dtorPc, dtorRc, destroyCalls, usedAfterDestroy>>
cfgVars == <<cfgPc, cfgPath, cfgWant, cfgGetOk, cfgRoot, cfgResult, cfgReads>>
vars == <<filterVars, lifeVars, destroyVars, cfgVars>>

\* ------------------------------------------------------------------ helpers
Range(s) == {s[i] : i \in 1..Len(s)}

LiveIndices(list) == {i \in 1..Len(list) : list[i] # Null}

RECURSIVE SortedSeq(_)
SortedSeq(S) ==
  IF S = {} THEN <<>>
  ELSE LET m == CHOOSE x \in S : \A y \in S : x <= y
       IN <<m>> \o SortedSeq(S \ {m})

\* filters_.begin(): the first node, or the sentinel when the list is empty.
ListBegin == IF Len(filters_) = 0 THEN End ELSE 1

\* std::next(it) on a list node: the following node, or the sentinel after the
\* last one.  The sentinel stays the sentinel whatever is appended later.
ListNext(i) == IF i # End /\ i < Len(filters_) THEN i + 1 ELSE End

\* The same loop without the test `if (*it)`.
NextLiveNoSkip(i) == IF i = End \/ i > Len(filters_) THEN End ELSE i

\* The loop of StepNetworkFilter: from position i, the first entry that is not
\* nullptr, or End when the loop runs off the list.
NextLive(i) ==
  IF i = End THEN End
  ELSE LET live == {j \in i..Len(filters_) : filters_[j] # Null}
       IN IF live = {} THEN End ELSE CHOOSE j \in live : \A k \in live : j <= k

\* The positions the loop reads on its way from i to its stopping point stop.
Scanned(i, stop) ==
  IF i = End THEN {}
  ELSE IF stop = End THEN i..Len(filters_) ELSE i..stop

\* ------------------------------------------------------------------ Init
\* The state after Player::Player(engine): no filter, no element, no object.
Init ==
  /\ filters_ = <<>>
  /\ filters_mutex_ = Free
  /\ pc = [r \in Runs |-> "idle"]
  /\ it = [r \in Runs |-> End]
  /\ calls = [r \in Runs |-> <<>>]
  /\ finalized = [r \in Runs |-> 0]
  /\ result = [r \in Runs |-> "pending"]
  /\ failedAt = [r \in Runs |-> 0]
  /\ examined = [r \in Runs |-> {}]
  /\ scanLen = [r \in Runs |-> 0]
  /\ startLive = [r \in Runs |-> <<>>]
  /\ mutated = [r \in Runs |-> FALSE]
  /\ okSteps = [r \in Runs |-> 0]
  /\ removedIn = [r \in Runs |-> {}]
  /\ video_ = Null
  /\ object_ = FALSE
  /\ withPlayer = FALSE
  /\ initPc = "start"
  /\ initLog = <<>>
  /\ initFailedStep = 0
  /\ remoteSink = Null
  /\ opKind = [o \in Ops |-> "none"]
  /\ opPc = [o \in Ops |-> "idle"]
  /\ opRc = [o \in Ops |-> "pending"]
  /\ opOld = [o \in Ops |-> Null]
  /\ opLog = [o \in Ops |-> <<>>]
  /\ queue = <<>>
  /\ detached = [s \in Sinks |-> 0]
  /\ writers = {}
  /\ overlap = FALSE
  /\ opSeq = [o \in Ops |-> FALSE]
  /\ opLate = [o \in Ops |-> FALSE]
  /\ destroyPc = "idle"
  /\ dtorPc = "alive"
  /\ dtorRc = "pending"
  /\ destroyCalls = 0
  /\ usedAfterDestroy = FALSE
  /\ cfgPc = "idle"
  /\ cfgPath = <<>>
  /\ cfgWant = "none"
  /\ cfgGetOk = FALSE
  /\ cfgRoot = NoConfiguration
  /\ cfgResult = <<>>
  /\ cfgReads = 0

\* ------------------------------------------------------------------ filters
Active(r) == pc[r] \notin {"idle", "done"}

\* AddNetworkFilters: under the lock, filters_.emplace_back(filters).
AddNetworkFilters(f) ==
  /\ filters_mutex_ = Free
  /\ Len(filters_) < MaxFilters
  /\ filters_' = Append(filters_, f)
  /\ mutated' = [r \in Runs |-> mutated[r] \/ Active(r)]
  /\ UNCHANGED <<filters_mutex_, pc, it, calls, finalized, result, failedAt,
                 examined, scanLen, startLive>>
  /\ UNCHANGED <<okSteps, removedIn, lifeVars, destroyVars, cfgVars>>

\* The loop body of RemoveNetworkFilters: every element equal to `filters`
\* becomes nullptr; nothing is erased.
TombstoneFirst(list, f) ==
  [i \in 1..Len(list) |->
     IF list[i] = f /\ \A j \in 1..(i - 1) : list[j] # f THEN Null ELSE list[i]]
Tombstone(list, f) == [i \in 1..Len(list) |-> IF list[i] = f THEN Null ELSE list[i]]

RemoveNetworkFilters(f) ==
  /\ filters_mutex_ = Free
  /\ filters_' = Tombstone(filters_, f)
  /\ mutated' = [r \in Runs |-> mutated[r] \/ Active(r)]
  /\ removedIn' = [r \in Runs |->
                     IF Active(r) /\ f \in Range(filters_)
                     THEN removedIn[r] \cup {f} ELSE removedIn[r]]
  /\ UNCHANGED <<filters_mutex_, pc, it, calls, finalized, result, failedAt,
                 examined, scanLen, startLive>>
  /\ UNCHANGED <<okSteps, lifeVars, destroyVars, cfgVars>>

\* req_filter / resp_filter: a request or response event starts a run.  The
\* lambda evaluates filters_.begin() as an argument, before StepNetworkFilter
\* takes the lock.
StartRun(r) ==
  /\ pc[r] = "idle"
  /\ \A q \in Runs : q < r => pc[q] # "idle"
  /\ pc' = [pc EXCEPT ![r] = "step"]
  /\ it' = [it EXCEPT ![r] = ListBegin]
  /\ startLive' = [startLive EXCEPT ![r] = SortedSeq(LiveIndices(filters_))]
  /\ UNCHANGED <<filters_, filters_mutex_, calls, finalized, result, failedAt,
                 examined, scanLen, mutated>>
  /\ UNCHANGED <<okSteps, removedIn, lifeVars, destroyVars, cfgVars>>

\* How many times one call of StepNetworkFilter reaches obj->Finalize(): the
\* `return` after HandleNetworkFuture leaves before it, so only a scan that found
\* no live entry falls through to it.
FinalizeCallsAlways(found) == 1
FinalizeCalls(found) == IF found THEN 0 ELSE 1

\* StepNetworkFilter up to the filter call: take the lock, scan from `it` for
\* the next entry that is not nullptr.  Found: the filter's step is entered with
\* the lock held.  Not found: the lock's scope ends.
StepNetworkFilter(r) ==
  /\ pc[r] = "step"
  /\ filters_mutex_ = Free
  /\ LET j == NextLive(it[r])
     IN /\ examined' = [examined EXCEPT ![r] = @ \cup Scanned(it[r], j)]
        /\ scanLen' = [scanLen EXCEPT ![r] = Len(filters_)]
        /\ IF j # End
           THEN /\ filters_mutex_' = r
                /\ it' = [it EXCEPT ![r] = j]
                /\ calls' = [calls EXCEPT ![r] = Append(@, <<j, filters_[j]>>)]
                /\ pc' = [pc EXCEPT ![r] = "invoking"]
           ELSE /\ pc' = [pc EXCEPT ![r] = "finish"]
                /\ UNCHANGED <<filters_mutex_, it, calls>>
  /\ UNCHANGED <<filters_, finalized, result, failedAt, startLive, mutated>>
  /\ UNCHANGED <<okSteps, removedIn, lifeVars, destroyVars, cfgVars>>

\* The filter's OnRequestFilter/OnResponseFilter returns its future;
\* HandleNetworkFuture takes it with the continuation; `return` ends the lock's
\* scope.
FilterReturns(r) ==
  /\ pc[r] = "invoking"
  /\ filters_mutex_' = Free
  /\ pc' = [pc EXCEPT ![r] = "inflight"]
  /\ finalized' = [finalized EXCEPT ![r] = @ + FinalizeCalls(TRUE)]
  /\ UNCHANGED <<filters_, it, calls, result, failedAt, examined, scanLen,
                 startLive, mutated>>
  /\ UNCHANGED <<okSteps, removedIn, lifeVars, destroyVars, cfgVars>>

\* The filter's step calls AddNetworkFilters or RemoveNetworkFilters before it
\* returns: the call waits for filters_mutex_, which its own caller holds.
FilterReenters(r) ==
  /\ pc[r] = "invoking"
  /\ pc' = [pc EXCEPT ![r] = "blocked"]
  /\ UNCHANGED <<filters_, filters_mutex_, it, calls, finalized, result,
                 failedAt, examined, scanLen, startLive, mutated>>
  /\ UNCHANGED <<okSteps, removedIn, lifeVars, destroyVars, cfgVars>>

\* HandleNetworkFuture(results, future, on_done): when the future completes, a
\* present Error rejects the Promise, otherwise on_done runs.
HandleNetworkFuture(err) == IF err THEN "reject" ELSE "on_done"

\* The continuation of lines 292-294: the position it hands to the next
\* StepNetworkFilter, read from the list when the continuation runs.
ContinuationSame(r) == it[r]
Continuation(r) == ListNext(it[r])

\* The step's future completes, on whatever thread.
FutureCompletes(r, err) ==
  /\ pc[r] = "inflight"
  /\ IF HandleNetworkFuture(err) = "reject"
     THEN /\ result' = [result EXCEPT ![r] = IF @ = "pending" THEN "rejected" ELSE @]
          /\ failedAt' = [failedAt EXCEPT ![r] = it[r]]
          /\ pc' = [pc EXCEPT ![r] = "done"]
          /\ removedIn' = [removedIn EXCEPT ![r] = {}]
          /\ UNCHANGED <<it, okSteps>>
     ELSE /\ it' = [it EXCEPT ![r] = Continuation(r)]
          /\ okSteps' = [okSteps EXCEPT ![r] = @ + 1]
          /\ pc' = [pc EXCEPT ![r] = "step"]
          /\ UNCHANGED <<result, failedAt, removedIn>>
  /\ UNCHANGED <<filters_, filters_mutex_, calls, finalized, examined, scanLen,
                 startLive, mutated>>
  /\ UNCHANGED <<lifeVars, destroyVars, cfgVars>>

\* Lines 301-302, outside the lock: obj->Finalize(), results.ResolveWith(...).
Finish(r) ==
  /\ pc[r] = "finish"
  /\ finalized' = [finalized EXCEPT ![r] = @ + FinalizeCalls(FALSE)]
  /\ result' = [result EXCEPT ![r] = IF @ = "pending" THEN "resolved" ELSE @]
  /\ pc' = [pc EXCEPT ![r] = "done"]
  /\ removedIn' = [removedIn EXCEPT ![r] = {}]
  /\ UNCHANGED <<filters_, filters_mutex_, it, calls, failedAt, examined,
                 scanLen, startLive, mutated>>
  /\ UNCHANGED <<okSteps, lifeVars, destroyVars, cfgVars>>

NextFilters ==
  \/ \E f \in FilterIds : AddNetworkFilters(f)
  \/ \E f \in FilterIds : RemoveNetworkFilters(f)
  \/ \E r \in Runs : StartRun(r)
  \/ \E r \in Runs : StepNetworkFilter(r)
  \/ \E r \in Runs : FilterReturns(r)
  \/ \E r \in Runs : FilterReenters(r)
  \/ \E r \in Runs, err \in BOOLEAN : FutureCompletes(r, err)
  \/ \E r \in Runs : Finish(r)

SpecFilters == Init /\ [][NextFilters]_vars

\* ------------------------------------------------------------------ lifecycle
\* The steps of Initialize's task, in the order the code performs them:
\* lines 106-112, 116-128, 233, 244, 247-251, 260-263, 272-276.
InitOrder == <<"lookup", "construct", "listen_error", "listen_buffering",
               "get_networking_engine", "register_request_filter",
               "register_response_filter">>

\* Lines 106-112: GetDescendant(global, {"shaka", "Player"}); not a Function:
\* return Error.  `haveCtor` is whether the lookup yields a function.
InitLookup(player, haveCtor) ==
  /\ initPc = "start"
  /\ dtorPc = "alive"
  /\ withPlayer' = player
  /\ initLog' = Append(initLog, InitOrder[Len(initLog) + 1])
  /\ IF haveCtor
     THEN /\ initPc' = "construct"
          /\ UNCHANGED initFailedStep
     ELSE /\ initPc' = "failed"
          /\ initFailedStep' = Len(initLog')
  /\ UNCHANGED <<video_, object_, remoteSink, opKind, opPc, opRc, opOld, opLog,
                 queue, detached, writers, overlap>>
  /\ UNCHANGED <<opSeq, opLate, filterVars, destroyVars, cfgVars>>

\* Lines 116-128: with a player, video_ is set to a new element; then the
\* constructor is invoked; a throw returns its error, otherwise Init(object).
InitConstruct(ok) ==
  /\ initPc = "construct"
  /\ initLog' = Append(initLog, InitOrder[Len(initLog) + 1])
  /\ video_' = IF withPlayer THEN InitSink ELSE video_
  /\ writers' = IF withPlayer THEN writers \cup {"engine"} ELSE writers
  /\ IF ok
     THEN /\ object_' = TRUE
          /\ remoteSink' = video_'
          /\ initPc' = "listeners"
          /\ UNCHANGED initFailedStep
     ELSE /\ initPc' = "failed"
          /\ initFailedStep' = Len(initLog')
          /\ UNCHANGED <<object_, remoteSink>>
  /\ UNCHANGED <<withPlayer, opKind, opPc, opRc, opOld, opLog, queue, detached,
                 overlap>>
  /\ UNCHANGED <<opSeq, opLate, filterVars, destroyVars, cfgVars>>

\* AttachListeners, one step at a time: each of ATTACH("error"),
\* ATTACH("buffering"), getNetworkingEngine, registerRequestFilter,
\* registerResponseFilter returns its Error at once; after the last, `return {}`.
AttachListeners(ok) ==
  /\ initPc = "listeners"
  /\ initLog' = Append(initLog, InitOrder[Len(initLog) + 1])
  /\ IF ~ok
     THEN /\ initPc' = "failed"
          /\ initFailedStep' = Len(initLog')
     ELSE /\ initPc' = IF Len(initLog') = Len(InitOrder) THEN "ok" ELSE "listeners"
          /\ UNCHANGED initFailedStep
  /\ UNCHANGED <<video_, object_, withPlayer, remoteSink, opKind, opPc, opRc,
                 opOld, opLog, queue, detached, writers, overlap>>
  /\ UNCHANGED <<opSeq, opLate, filterVars, destroyVars, cfgVars>>

\* The element an op's `then` stores: Attach's new_elem, Detach's nullptr.
NewVideoOwn(o) == o
NewVideo(o) == IF opKind[o] = "attach" THEN o ELSE Null

\* The same call, storing the element at once instead of on retrieval.
IssueCallEager(o, kind) ==
  /\ initPc \in {"ok", "failed"}
  /\ dtorPc = "alive"
  /\ \A q \in Ops : q < o => opPc[q] # "idle"
  /\ opKind' = [opKind EXCEPT ![o] = kind]
  /\ opPc' = [opPc EXCEPT ![o] = "queued"]
  /\ queue' = Append(queue, o)
  /\ opSeq' = [opSeq EXCEPT ![o] = \A q \in Ops : q < o => opPc[q] = "retrieved"]
  /\ opLate' = [opLate EXCEPT ![o] = (destroyPc = "done")]
  /\ video_' = IF kind = "attach" THEN o ELSE Null
  /\ UNCHANGED <<object_, withPlayer, initPc, initLog, initFailedStep,
                 remoteSink, opRc, opOld, opLog, detached, writers, overlap>>
  /\ UNCHANGED <<filterVars, destroyVars, cfgVars>>

\* A call of Attach or Detach: CallMethod queues the remote call for the engine
\* thread, SetVideoWhenResolved wraps its future in a deferred one and returns.
IssueCall(o, kind) ==
  /\ initPc \in {"ok", "failed"}
  /\ dtorPc = "alive"
  /\ \A q \in Ops : q < o => opPc[q] # "idle"
  /\ opKind' = [opKind EXCEPT ![o] = kind]
  /\ opPc' = [opPc EXCEPT ![o] = "queued"]
  /\ queue' = Append(queue, o)
  /\ opSeq' = [opSeq EXCEPT ![o] = \A q \in Ops : q < o => opPc[q] = "retrieved"]
  /\ opLate' = [opLate EXCEPT ![o] = (destroyPc = "done")]
  /\ UNCHANGED <<video_, object_, withPlayer, initPc, initLog, initFailedStep,
                 remoteSink, opRc, opOld, opLog, detached, writers, overlap>>
  /\ UNCHANGED <<filterVars, destroyVars, cfgVars>>

\* Attach: new_elem is a new element (o), CallMethod("attach", new_elem).
Attach(o) ==
  /\ opPc[o] = "idle"
  /\ IssueCall(o, "attach")

\* Detach: CallMethod("detach"); the element to store is nullptr.
Detach(o) ==
  /\ opPc[o] = "idle"
  /\ IssueCall(o, "detach")

\* CallMethod's task on the engine thread: without a wrapped object the call
\* yields an error; with one, the JS method succeeds or throws.
CallMethodResult(ok) == IF object_ /\ ok THEN "ok" ELSE "err"

\* The engine thread runs the oldest queued remote attach/detach.
RemoteCall(ok) ==
  /\ queue # <<>>
  /\ Head(queue) \in Ops
  /\ LET o == Head(queue)
         rc == CallMethodResult(ok)
     IN /\ opRc' = [opRc EXCEPT ![o] = rc]
        /\ opPc' = [opPc EXCEPT ![o] = "resolved"]
        /\ remoteSink' = IF rc = "ok" THEN NewVideo(o) ELSE remoteSink
        /\ usedAfterDestroy' = (usedAfterDestroy \/ (opLate[o] /\ object_))
  /\ queue' = Tail(queue)
  /\ UNCHANGED <<video_, object_, withPlayer, initPc, initLog, initFailedStep,
                 opKind, opOld, opLog, detached, writers, overlap>>
  /\ UNCHANGED <<opSeq, opLate, filterVars, destroyPc, dtorPc, dtorRc,
                 destroyCalls, cfgVars>>

\* Line 183: the swap is done unless the results hold an Error.
CommitsAlways(rc) == TRUE
Commits(rc) == rc # "err"

InSwap(o) == opPc[o] \in {"detach", "assign"}

\* The caller retrieves the returned future: get() runs `then` on the caller's
\* thread; line 182 takes the remote call's results.
ThenGet(o) ==
  /\ opPc[o] = "resolved"
  /\ dtorPc = "alive"
  /\ IF Commits(opRc[o])
     THEN /\ opPc' = [opPc EXCEPT ![o] = "detach"]
          /\ overlap' = (overlap \/ \E q \in Ops \ {o} : InSwap(q))
     ELSE /\ opPc' = [opPc EXCEPT ![o] = "retrieved"]
          /\ UNCHANGED overlap
  /\ UNCHANGED <<video_, object_, withPlayer, initPc, initLog, initFailedStep,
                 remoteSink, opKind, opRc, opOld, opLog, queue, detached, writers>>
  /\ UNCHANGED <<opSeq, opLate, filterVars, destroyVars, cfgVars>>

\* Lines 184-185: if (video_) video_->Detach().
ThenDetach(o) ==
  /\ opPc[o] = "detach"
  /\ opOld' = [opOld EXCEPT ![o] = video_]
  /\ IF video_ # Null
     THEN /\ detached' = [detached EXCEPT ![video_] = @ + 1]
          /\ opLog' = [opLog EXCEPT ![o] = Append(@, <<"detach", video_>>)]
     ELSE UNCHANGED <<detached, opLog>>
  /\ opPc' = [opPc EXCEPT ![o] = "assign"]
  /\ UNCHANGED <<video_, object_, withPlayer, initPc, initLog, initFailedStep,
                 remoteSink, opKind, opRc, queue, writers, overlap>>
  /\ UNCHANGED <<opSeq, opLate, filterVars, destroyVars, cfgVars>>

\* Line 186: video_ = video; then the results are returned to the caller.
ThenAssign(o) ==
  /\ opPc[o] = "assign"
  /\ video_' = NewVideo(o)
  /\ writers' = writers \cup {"caller"}
  /\ opLog' = [opLog EXCEPT ![o] = Append(@, <<"assign", NewVideo(o)>>)]
  /\ opPc' = [opPc EXCEPT ![o] = "retrieved"]
  /\ UNCHANGED <<object_, withPlayer, initPc, initLog, initFailedStep,
                 remoteSink, opKind, opRc, opOld, queue, detached, overlap>>
  /\ UNCHANGED <<opSeq, opLate, filterVars, destroyVars, cfgVars>>

\* ------------------------------------------------------------------ teardown
\* The queue entries of the two remote 'destroy' calls.
DestroyTask == MaxOps + 1    \* Player::Destroy()'s CallMethod("destroy")
DtorTask == MaxOps + 2       \* ~Impl's CallMethod("destroy")

\* Player::Destroy(): impl_->CallMethod<void>("destroy"), nothing else.
Destroy ==
  /\ initPc \in {"ok", "failed"}
  /\ dtorPc = "alive"
  /\ destroyPc = "idle"
  /\ destroyPc' = "queued"
  /\ queue' = Append(queue, DestroyTask)
  /\ UNCHANGED <<video_, object_, withPlayer, initPc, initLog, initFailedStep,
                 remoteSink, opKind, opPc, opRc, opOld, opLog, detached,
                 writers, overlap, opSeq, opLate>>
  /\ UNCHANGED <<dtorPc, dtorRc, destroyCalls, usedAfterDestroy>>
  /\ UNCHANGED <<filterVars, cfgVars>>

\* ~Impl, line 91: with a wrapped object, call the remote destroy and wait.
\* The Player is destructed by its owner once no call on it is running.
DtorGuardAlways == TRUE
DtorGuard == object_

ImplDtor ==
  /\ dtorPc = "alive"
  /\ initPc \in {"start", "ok", "failed"}
  /\ \A o \in Ops : ~InSwap(o)
  /\ IF DtorGuard
     THEN /\ queue' = Append(queue, DtorTask)
          /\ dtorPc' = "waiting"
     ELSE /\ dtorPc' = "detach"
          /\ UNCHANGED queue
  /\ UNCHANGED <<video_, object_, withPlayer, initPc, initLog, initFailedStep,
                 remoteSink, opKind, opPc, opRc, opOld, opLog, detached,
                 writers, overlap, opSeq, opLate>>
  /\ UNCHANGED <<destroyPc, dtorRc, destroyCalls, usedAfterDestroy>>
  /\ UNCHANGED <<filterVars, cfgVars>>

\* The engine thread runs a queued remote 'destroy': it is a method call on
\* the wrapped object like any other, and succeeds or throws.
RemoteDestroy(ok) ==
  /\ queue # <<>>
  /\ Head(queue) \in {DestroyTask, DtorTask}
  /\ destroyCalls' = IF object_ THEN destroyCalls + 1 ELSE destroyCalls
  /\ IF Head(queue) = DestroyTask
     THEN /\ destroyPc' = "done"
          /\ UNCHANGED <<dtorPc, dtorRc>>
     ELSE /\ dtorPc' = "detach"
          /\ dtorRc' = CallMethodResult(ok)
          /\ UNCHANGED destroyPc
  /\ queue' = Tail(queue)
  /\ UNCHANGED <<video_, object_, withPlayer, initPc, initLog, initFailedStep,
                 remoteSink, opKind, opPc, opRc, opOld, opLog, detached,
                 writers, overlap, opSeq, opLate, usedAfterDestroy>>
  /\ UNCHANGED <<filterVars, cfgVars>>

\* ~Impl, lines 93-94, after wait() returned whatever the result: if (video_)
\* video_->Detach(); then the members, video_ among them, are destructed.
ImplDtorDetach ==
  /\ dtorPc = "detach"
  /\ detached' = IF video_ # Null
                 THEN [detached EXCEPT ![video_] = @ + 1]
                 ELSE detached
  /\ video_' = Null
  /\ dtorPc' = "gone"
  /\ UNCHANGED <<object_, withPlayer, initPc, initLog, initFailedStep,
                 remoteSink, opKind, opPc, opRc, opOld, opLog, queue,
                 writers, overlap, opSeq, opLate>>
  /\ UNCHANGED <<destroyPc, dtorRc, destroyCalls, usedAfterDestroy>>
  /\ UNCHANGED <<filterVars, cfgVars>>

NextLifecycle ==
  \/ \E player \in BOOLEAN, haveCtor \in BOOLEAN : InitLookup(player, haveCtor)
  \/ \E ok \in BOOLEAN : InitConstruct(ok)
  \/ \E ok \in BOOLEAN : AttachListeners(ok)
  \/ \E o \in Ops : Attach(o)
  \/ \E o \in Ops : Detach(o)
  \/ \E ok \in BOOLEAN : RemoteCall(ok)
  \/ \E o \in Ops : ThenGet(o)
  \/ \E o \in Ops : ThenDetach(o)
  \/ \E o \in Ops : ThenAssign(o)
  \/ Destroy
  \/ ImplDtor
  \/ \E ok \in BOOLEAN : RemoteDestroy(ok)
  \/ ImplDtorDetach

SpecLifecycle == Init /\ [][NextLifecycle]_vars

\* ------------------------------------------------------------------ configuration
\* util::StringSplit(name_path, '.'): the pieces between separators, empty
\* pieces included; a string without separator is one piece.
RECURSIVE StringSplit(_)
StringSplit(str) ==
  IF \A i \in 1..Len(str) : str[i] # "." THEN <<str>>
  ELSE LET e == CHOOSE i \in 1..Len(str) :
                  str[i] = "." /\ \A j \in 1..(i - 1) : str[j] # "."
       IN <<SubSeq(str, 1, e - 1)>> \o StringSplit(SubSeq(str, e + 1, Len(str)))

\* Reading the member `name` of the object at place cur.
GetMember(root, cur, name) ==
  IF Append(cur, name) \in DOMAIN root THEN root[Append(cur, name)] ELSE "undefined"

\* GetDescendant(root, names): read the named child of the current object; the
\* last name's child is the result; a child on the way that is not an object
\* ends the walk with undefined.  <<value, members read>>.
RECURSIVE Descend(_, _, _, _)
Descend(root, cur, names, reads) ==
  LET child == GetMember(root, cur, Head(names))
  IN IF Len(names) = 1 THEN <<child, reads + 1>>
     ELSE IF child # "object" THEN <<"undefined", reads + 1>>
     ELSE Descend(root, Append(cur, Head(names)), Tail(names), reads + 1)

GetDescendant(root, names) == Descend(root, <<>>, names, 0)

\* Converter<T>::Convert(name_path, result): undefined is a path that was
\* not found, a value of another kind than T a type mismatch.
Convert(value, want) ==
  IF value = "undefined" THEN <<"Error", "PathNotFound">>
  ELSE IF value # want THEN <<"Error", "TypeMismatch">>
  ELSE <<"Value", value>>

\* Lines 202-216 without the test of line 206.
RawResultUnchecked(root, path, want, ok) ==
  LET d == GetDescendant(root, StringSplit(path))
  IN <<Convert(d[1], want), d[2]>>

\* Lines 202-216: an Error from getConfiguration is returned at once;
\* otherwise split, navigate, convert.  <<result, members read>>.
RawResult(root, path, want, ok) ==
  IF ~ok THEN <<<<"Error", "getConfiguration">>, 0>>
  ELSE LET d == GetDescendant(root, StringSplit(path))
       IN <<Convert(d[1], want), d[2]>>

\* GetConfigValue<T>(name_path): schedule GetConfigValueRaw<T> on the engine
\* thread.
GetConfigValue ==
  /\ cfgPc = "idle"
  /\ initPc = "ok"
  /\ \E path \in Paths, want \in Types :
       /\ cfgPath' = path
       /\ cfgWant' = want
  /\ cfgPc' = "scheduled"
  /\ UNCHANGED <<cfgGetOk, cfgRoot, cfgResult, cfgReads>>
  /\ UNCHANGED <<filterVars, lifeVars, destroyVars>>

\* GetConfigValueRaw<T> runs: getConfiguration yields an Error or the object
\* `root`, the player's configuration at that time.
GetConfigValueRaw ==
  /\ cfgPc = "scheduled"
  /\ \E root \in Configurations, ok \in BOOLEAN :
       /\ ok \/ root = NoConfiguration
       /\ cfgGetOk' = ok
       /\ cfgRoot' = root
       /\ LET r == RawResult(root, cfgPath, cfgWant, ok)
          IN /\ cfgResult' = r[1]
             /\ cfgReads' = r[2]
  /\ cfgPc' = "done"
  /\ UNCHANGED <<cfgPath, cfgWant>>
  /\ UNCHANGED <<filterVars, lifeVars, destroyVars>>

NextConfig ==
  \/ \E player \in BOOLEAN, haveCtor \in BOOLEAN : InitLookup(player, haveCtor)
  \/ \E ok \in BOOLEAN : InitConstruct(ok)
  \/ \E ok \in BOOLEAN : AttachListeners(ok)
  \/ GetConfigValue
  \/ GetConfigValueRaw

SpecConfig == Init /\ [][NextConfig]_vars

\* ------------------------------------------------------------------ claims
CallIndex(r) == [i \in 1..Len(calls[r]) |-> calls[r][i][1]]

\* The position in startLive of the index i (0 when it is not there).
LiveRank(r, i) ==
  IF i \in Range(startLive[r])
  THEN CHOOSE k \in 1..Len(startLive[r]) : startLive[r][k] = i
  ELSE 0

C2_FailureStopsChain ==
  \A r \in Runs :
    (result[r] = "rejected" /\ ~mutated[r]) =>
      LET k == LiveRank(r, failedAt[r])
      IN /\ k >= 1
         /\ CallIndex(r) = SubSeq(startLive[r], 1, k)

\* The first of two live filters fails: the second is never invoked.
C2_Witness ==
  \E r \in Runs :
    /\ result[r] = "rejected" /\ ~mutated[r] /\ pc[r] = "done"
    /\ Len(startLive[r]) = 2
    /\ failedAt[r] = startLive[r][1]
    /\ Len(calls[r]) = 1

\* C3: whatever add/remove interleaves with a run, the run invokes in
\* registration order only entries that are live when the scan reaches them,
\* and the scan skips no entry of the list: when the run resolves, every
\* position the list held at its last locked scan has been read by the scan.
C3_VisitsExactlyLiveInOrder ==
  \A r \in Runs :
    /\ \A a, b \in 1..Len(calls[r]) : a < b => calls[r][a][1] < calls[r][b][1]
    /\ \A a \in 1..Len(calls[r]) : calls[r][a][2] # Null
    /\ pc[r] \in {"finish", "done"} /\ result[r] # "rejected" =>
         \A j \in 1..scanLen[r] : j \in examined[r]

\* C8: filters_mutex_ is not held while a filter's step is being invoked or is
\* in flight, and a step that calls add/remove does not block on the lock.
C8_LockNotHeldAcrossStep ==
  \A r \in Runs :
    /\ pc[r] \in {"invoking", "inflight"} => filters_mutex_ # r
    /\ pc[r] # "blocked"

\* What an op does between two states: it moved if its position changed.
Moved(o) == opPc'[o] # opPc[o]

\* C4: commit on success.  An op whose remote call resolved with an error
\* leaves video_ as it is and detaches nothing; an op whose remote call
\* succeeded first detaches the element it finds held, if any, leaving video_
\* as it is, and then stores its own element (Attach) or nothing (Detach).
C4_CommitOnSuccess ==
  [][\A o \in Ops :
       /\ (Moved(o) /\ opRc[o] = "err" /\ opPc[o] = "resolved") =>
            /\ opPc'[o] = "retrieved"
            /\ video_' = video_
            /\ detached' = detached
       /\ (Moved(o) /\ opRc[o] = "ok" /\ opPc[o] = "resolved") =>
            /\ opPc'[o] = "detach"
            /\ video_' = video_
            /\ detached' = detached
       /\ (Moved(o) /\ opPc[o] = "detach") =>
            /\ opPc'[o] = "assign"
            /\ opRc[o] = "ok"
            /\ video_' = video_
            /\ detached' = [s \in Sinks |->
                              IF s = video_ THEN detached[s] + 1 ELSE detached[s]]
       /\ (Moved(o) /\ opPc[o] = "assign") =>
            /\ opPc'[o] = "retrieved"
            /\ opRc[o] = "ok"
            /\ video_' = NewVideo(o)
            /\ detached' = detached
            /\ opOld[o] # Null => detached[opOld[o]] >= 1
  ]_vars

\* A successful op has replaced, after detaching it, an element it found held,
\* and a failed op has been retrieved too.
C4_Witness ==
  \E o, q \in Ops :
    /\ opPc[o] = "retrieved" /\ opRc[o] = "ok" /\ opOld[o] # Null
    /\ detached[opOld[o]] = 1
    /\ video_ = NewVideo(o)
    /\ opPc[q] = "retrieved" /\ opRc[q] = "err"

AllSettled == queue = <<>> /\ \A o \in Ops : opPc[o] \in {"idle", "retrieved"}

\* C5: after a successful Initialize, once every remote call has resolved and
\* every returned result has been retrieved, one at a time and in any order,
\* video_ is the element the JS player has attached.
C5_NativeMatchesRemote ==
  (initPc = "ok" /\ AllSettled /\ ~overlap) => video_ = remoteSink

\* C6: Attach(A) then Attach(B), nothing else, both results retrieved one at a
\* time in either order: if the first failed, B is held iff the second
\* succeeded; if both succeeded, A has been detached and B is held.
C6_AttachThenAttach ==
  (/\ initPc = "ok" /\ AllSettled /\ ~overlap
   /\ opKind[1] = "attach" /\ opKind[2] = "attach"
   /\ opPc[1] = "retrieved" /\ opPc[2] = "retrieved"
   /\ \A o \in Ops \ {1, 2} : opPc[o] = "idle") =>
     /\ opRc[1] = "err" => (video_ = 2 <=> opRc[2] = "ok")
     /\ (opRc[1] = "ok" /\ opRc[2] = "ok") => (video_ = 2 /\ detached[1] >= 1)

\* C7: every write of video_ is made on the engine thread, and no two `then`
\* bodies are inside the swap at once.
C7_WritesOnEngineThread ==
  /\ writers \subseteq {"engine"}
  /\ Cardinality({o \in Ops : InSwap(o)}) <= 1

\* C9: after a failed Initialize (and before any Attach) video_ is empty.
C9_FailedInitHoldsNoSink ==
  (initPc = "failed" /\ \A o \in Ops : opPc[o] = "idle") => video_ = Null

\* C10: Initialize performs its steps in the fixed order, stops at the first
\* failing one, and a failed Initialize leaves no wrapped remote object; a
\* failed lookup performs no other step.
C10_InitOrderAbortNotReady ==
  /\ \A i \in 1..Len(initLog) : i <= Len(InitOrder) /\ initLog[i] = InitOrder[i]
  /\ initPc = "ok" => Len(initLog) = Len(InitOrder)
  /\ initPc = "failed" => (Len(initLog) = initFailedStep /\ ~object_)
  /\ initFailedStep = 1 => (initLog = <<"lookup">> /\ ~object_ /\ remoteSink = Null)

\* C11: an operation called after Player::Destroy() has completed resolves
\* with an error and its remote call is not made on the destroyed JS object.
C11_ErrorAfterDestroy ==
  /\ ~usedAfterDestroy
  /\ \A o \in Ops : (opLate[o] /\ opPc[o] \notin {"idle", "queued"}) => opRc[o] = "err"

\* C12: the Sink is detached by the teardown only after the remote destroy has
\* resolved; once destroy has completed no Sink is held; a failed remote
\* destroy still ends with the Sink released.
C12_DestroyReleasesSink ==
  /\ dtorPc = "waiting" => DtorTask \in Range(queue)
  /\ dtorPc = "gone" => (video_ = Null /\ DtorTask \notin Range(queue))
  /\ (destroyPc = "done" /\ \A o \in Ops : ~InSwap(o)) => video_ = Null

\* C20: the remote 'destroy' method is invoked at most once on the JS object.
C20_DestroyInvokedOnce == destroyCalls <= 1

\* The scenario of C14: no player at Initialize, Initialize succeeded, then
\* Attach succeeded and was retrieved, then Detach succeeded and was retrieved.
AttachThenDetachDone ==
  /\ initPc = "ok" /\ ~withPlayer
  /\ opKind[1] = "attach" /\ opRc[1] = "ok"
  /\ opKind[2] = "detach" /\ opRc[2] = "ok" /\ opSeq[2]
  /\ opPc[2] = "retrieved"
  /\ \A o \in Ops \ {1, 2} : opPc[o] = "idle"

\* C14: after that scenario video_ is empty and the attached element has
\* received exactly one Detach, also while and after the Player is destructed.
C14_OneDetachAfterAttachDetach ==
  AttachThenDetachDone => (video_ = Null /\ detached[1] = 1)

\* The scenario is over and the Player has been destructed.
C14_Witness == AttachThenDetachDone /\ dtorPc = "gone" /\ detached[1] = 1

\* C19: between Initialize and teardown video_ changes only in the step that
\* ends the retrieval of an Attach/Detach result; an op that has not reached
\* that step has not changed it, whether or not its remote call has resolved.
C19_SwapOnlyOnRetrieval ==
  [][(video_' # video_ /\ initPc \in {"ok", "failed"} /\ dtorPc = "alive") =>
       \E o \in Ops : /\ opPc[o] = "assign" /\ opPc'[o] = "retrieved"
                      /\ opRc[o] = "ok"
                      /\ video_' = NewVideo(o)]_vars

\* A remote attach has succeeded, its result is not retrieved, and video_ is
\* still what Initialize left while the JS player has the new element.
C19_Witness ==
  \E o \in Ops :
    /\ opKind[o] = "attach" /\ opPc[o] = "resolved" /\ opRc[o] = "ok"
    /\ remoteSink = o /\ video_ # o
    /\ \A q \in Ops : opPc[q] \in {"idle", "queued", "resolved"}

\* C13: a run that starts with no live entry (the list empty or every entry
\* nullptr), with no add/remove while it runs, invokes no step, calls Finalize
\* once and resolves.
C13_NoLiveFilterResolves ==
  \A r \in Runs :
    (pc[r] # "idle" /\ startLive[r] = <<>> /\ ~mutated[r]) =>
      /\ calls[r] = <<>>
      /\ pc[r] \in {"step", "finish", "done"}
      /\ pc[r] = "done" => (finalized[r] = 1 /\ result[r] = "resolved")
      /\ pc[r] # "done" => (finalized[r] = 0 /\ result[r] = "pending")

\* A run over a list whose every entry is tombstoned has ended.
C13_Witness ==
  \E r \in Runs :
    /\ pc[r] = "done" /\ ~mutated[r] /\ startLive[r] = <<>>
    /\ Len(filters_) >= 1 /\ calls[r] = <<>> /\ result[r] = "resolved"

\* C16: within a run, the steps invoked are at strictly increasing positions,
\* a step is invoked only when every step invoked before it has completed
\* without Error, and so at most one step is not yet completed.
C16_OneStepAtATime ==
  \A r \in Runs :
    /\ \A a \in 1..(Len(calls[r]) - 1) : calls[r][a][1] < calls[r][a + 1][1]
    /\ Len(calls[r]) - okSteps[r] \in {0, 1}
    /\ pc[r] \in {"invoking", "inflight", "blocked"} =>
         okSteps[r] = Len(calls[r]) - 1
    /\ pc[r] \in {"step", "finish"} => okSteps[r] = Len(calls[r])

\* The second step of a run is in flight after the first one completed.
C16_Witness ==
  \E r \in Runs :
    pc[r] = "inflight" /\ Len(calls[r]) = 2 /\ okSteps[r] = 1

\* C17: in every step filters_ keeps its length or grows by one live entry at
\* the end; an entry keeps its position and its value or becomes nullptr; a
\* nullptr entry stays nullptr; when entries become nullptr they are exactly
\* the entries of one identity, all of them.
C17_AppendOnlyTombstones ==
  [][/\ Len(filters_') \in {Len(filters_), Len(filters_) + 1}
     /\ \A i \in 1..Len(filters_) : filters_'[i] \in {filters_[i], Null}
     /\ Len(filters_') = Len(filters_) + 1 =>
          /\ filters_'[Len(filters_')] \in FilterIds
          /\ \A i \in 1..Len(filters_) : filters_'[i] = filters_[i]
     /\ (\E i \in 1..Len(filters_) : filters_'[i] # filters_[i]) =>
          /\ Len(filters_') = Len(filters_)
          /\ \E f \in FilterIds :
               \A i \in 1..Len(filters_) :
                 filters_'[i] # filters_[i] <=> filters_[i] = f
  ]_vars

\* Every slot of a full list is tombstoned and still there.
C17_Witness ==
  Len(filters_) = MaxFilters /\ \A i \in 1..Len(filters_) : filters_[i] = Null

\* C18: a run does not invoke a filter that was removed while the run was
\* active, whether or not the filter has been added again since.
C18_RemovedNeverInvokedAgain ==
  [][\A r \in Runs :
       Len(calls'[r]) > Len(calls[r]) =>
         calls'[r][Len(calls'[r])][2] \notin removedIn[r]]_vars

\* The k-th piece of cfgPath, by the positions of its separators.
Dots == {i \in 1..Len(cfgPath) : cfgPath[i] = "."}
NumPieces == Cardinality(Dots) + 1
Piece(k) ==
  LET dots == SortedSeq(Dots)
      lo == IF k = 1 THEN 1 ELSE dots[k - 1] + 1
      hi == IF k = NumPieces THEN Len(cfgPath) ELSE dots[k] - 1
  IN SubSeq(cfgPath, lo, hi)
\* The place the first k pieces name, and what the configuration holds there.
PlaceOf(k) == [i \in 1..k |-> Piece(i)]
Held(k) == IF PlaceOf(k) \in Places THEN cfgRoot[PlaceOf(k)] ELSE "undefined"

\* C15: a failed getConfiguration is returned as it is, with no member read;
\* otherwise, with the path split at its separators: a piece naming no member
\* gives PathNotFound; a piece before the last naming a member that is not an
\* object gives PathNotFound; a path present to its end gives TypeMismatch
\* when the value is not a T, and the value when it is.
C15_ConfigPathErrors ==
  cfgPc = "done" =>
    IF ~cfgGetOk
    THEN cfgResult = <<"Error", "getConfiguration">> /\ cfgReads = 0
    ELSE /\ (\E k \in 1..NumPieces : Held(k) = "undefined") =>
              cfgResult = <<"Error", "PathNotFound">>
         /\ (\E k \in 1..(NumPieces - 1) : Held(k) \in Types) =>
              cfgResult = <<"Error", "PathNotFound">>
         /\ ((\A k \in 1..NumPieces : Held(k) # "undefined")
               /\ Held(NumPieces) # cfgWant) =>
              cfgResult = <<"Error", "TypeMismatch">>
         /\ ((\A k \in 1..NumPieces : Held(k) # "undefined")
               /\ Held(NumPieces) = cfgWant) =>
              cfgResult = <<"Value", cfgWant>>
         /\ cfgReads >= 1

\* "a.b.a" was read from a configuration whose a.b is a number.
C15_Witness ==
  /\ cfgPc = "done" /\ cfgGetOk
  /\ cfgPath = <<"a", ".", "b", ".", "a">>
  /\ cfgRoot[<<<<"a">>, <<"b">>>>] = "number"
  /\ cfgResult = <<"Error", "PathNotFound">>
  /\ cfgReads = 2

====
